---- MODULE Spec2Model ----
(***************************************************************************)
(* Model of the two command-line tools of khusa71/kardu:                   *)
(*   server/pdf-processor.py   extract_text_from_pdf (Text Extractor)      *)
(*   server/anki-generator.py  create_anki_deck      (Deck Builder)        *)
(* A text is a sequence of one-character strings.  An optional value       *)
(* (Python None or a value) is a sequence of length 0 or 1.                *)
(***************************************************************************)
EXTENDS Integers, Sequences, FiniteSets, TLC

VARIABLES
    pc,               \* position of the running function
    exit_code,        \* <<>> while running / after a return, <<n>> after sys.exit(n)
    stderr,           \* lines printed to standard error
    stdout,           \* lines printed to standard output
    \* ---- extract_text_from_pdf
    pdf_pages,        \* the document behind pdf_path: the text of each page
    max_pages,        \* argument: None or <<n>>
    doc_opened,       \* fitz.open returned a handle
    doc_closed,       \* doc.close() was called
    total_pages,
    pages_to_process,
    page_num,
    loaded,           \* arguments of the load_page calls made so far, in order
    text_content,
    processed_text,   \* the value returned
    \* ---- create_anki_deck
    flashcards_json,  \* argument: the JSON document (malformed, or the value it encodes)
    flashcards,       \* result of json.loads
    deck,             \* notes added to the deck, each the list of its four fields
    card_idx,         \* number of elements of flashcards the for loop has consumed
    write_calls       \* decks handed to write_to_file, in call order

vars == <<pc, exit_code, stderr, stdout, pdf_pages, max_pages, doc_opened,
          doc_closed, total_pages, pages_to_process, page_num, loaded,
          text_content, processed_text, flashcards_json, flashcards, deck,
          card_idx, write_calls>>

pdfVars == <<pdf_pages, max_pages, doc_opened, doc_closed, total_pages,
             pages_to_process, page_num, loaded, text_content, processed_text>>

ankiVars == <<flashcards_json, flashcards, deck, card_idx, write_calls>>

----------------------------------------------------------------------------
(* Bounds *)

MaxDocPages == 2      \* pages in a document
MaxDocChars == 4      \* characters in a document, all pages together
MaxLimit == 3         \* largest max_pages argument
MaxCards == 2         \* elements in a flashcard array

----------------------------------------------------------------------------
(* Texts *)

None == <<>>

Some(v) == <<v>>

NL == "\n"

\* the characters page texts are drawn from: a letter, two blanks, a newline
Chars == {"a", " ", "\t", NL}

\* characters str.split() and str.strip() treat as whitespace
Whitespace == {" ", "\t", NL, "\r"}

Min(a, b) == IF a < b THEN a ELSE b

Tail2(s, n) == SubSeq(s, n + 1, Len(s))

\* str(n) for n >= 0
RECURSIVE Digits(_)
Digits(n) ==
    LET d == <<"0", "1", "2", "3", "4", "5", "6", "7", "8", "9">>
    IN  IF n < 10 THEN <<d[n + 1]>> ELSE Digits(n \div 10) \o <<d[(n % 10) + 1]>>

\* sep.join(parts)
RECURSIVE Join(_, _)
Join(sep, parts) ==
    IF parts = <<>> THEN <<>>
    ELSE IF Len(parts) = 1 THEN parts[1]
    ELSE parts[1] \o sep \o Join(sep, Tail(parts))

\* text.split(c) for a one-character separator c
RECURSIVE Split(_, _)
Split(text, c) ==
    IF \A i \in 1..Len(text) : text[i] # c THEN <<text>>
    ELSE LET i == CHOOSE k \in 1..Len(text) :
                      text[k] = c /\ \A j \in 1..(k - 1) : text[j] # c
         IN  <<SubSeq(text, 1, i - 1)>> \o Split(Tail2(text, i), c)

\* text.split(): the maximal runs of non-whitespace characters
RECURSIVE SplitWs(_)
SplitWs(text) ==
    IF text = <<>> THEN <<>>
    ELSE IF text[1] \in Whitespace THEN SplitWs(Tail(text))
    ELSE LET ends == {k \in 1..Len(text) :
                         /\ \A j \in 1..k : text[j] \notin Whitespace
                         /\ (k = Len(text) \/ text[k + 1] \in Whitespace)}
             e == CHOOSE k \in ends : TRUE
         IN  <<SubSeq(text, 1, e)>> \o SplitWs(Tail2(text, e))

\* text.strip()
RECURSIVE Strip(_)
Strip(text) ==
    IF text = <<>> THEN <<>>
    ELSE IF text[1] \in Whitespace THEN Strip(Tail(text))
    ELSE IF text[Len(text)] \in Whitespace THEN Strip(SubSeq(text, 1, Len(text) - 1))
    ELSE text

----------------------------------------------------------------------------
(* extract_text_from_pdf *)

\* variant: the limit tested with 'is not None'
TruthyNotNone(mp) == mp # None

\* truth value of the max_pages argument
Truthy(mp) == mp # None /\ mp[1] # 0

\* variant: the limit ignored when counting the pages to process
PagesToProcessAll(total, mp) == total

PagesToProcess(total, mp) == IF Truthy(mp) THEN Min(total, mp[1]) ELSE total

\* variant: the line kept as it is
CleanLineKeep(line) == line

\* ' '.join(line.split())
CleanLine(line) == Join(<<" ">>, SplitWs(line))

\* the loop over lines: clean each, keep the non-empty ones
RECURSIVE CleanLines(_)
CleanLines(lines) ==
    IF lines = <<>> THEN <<>>
    ELSE LET cleaned_line == CleanLine(Head(lines))
         IN  (IF cleaned_line # <<>> THEN <<cleaned_line>> ELSE <<>>)
                 \o CleanLines(Tail(lines))

\* variant: the notice also when the limit equals the page count
NoticeAppliesAtTotal(mp, total) == Truthy(mp) /\ total >= mp[1]

NoticeApplies(mp, total) == Truthy(mp) /\ total > mp[1]

Notice(processed, total) ==
    <<NL, NL>>
    \o <<"[", "N", "o", "t", "e", ":", " ", "O", "n", "l", "y", " ", "t", "h",
         "e", " ", "f", "i", "r", "s", "t", " ">>
    \o Digits(processed)
    \o <<" ", "o", "f", " ">>
    \o Digits(total)
    \o <<" ", "p", "a", "g", "e", "s", " ", "w", "e", "r", "e", " ", "p", "r",
         "o", "c", "e", "s", "s", "e", "d", " ", "d", "u", "e", " ", "t", "o",
         " ", "p", "l", "a", "n", " ", "l", "i", "m", "i", "t", "s", "]">>

\* lines 24-41: join the pages, clean the lines, append the notice
ProcessText(pages, mp, processed, total) ==
    LET full_text == Join(<<NL, NL>>, pages)
        lines == Split(full_text, NL)
        cleaned == Join(<<NL>>, CleanLines(lines))
    IN  IF NoticeApplies(mp, total) THEN cleaned \o Notice(processed, total)
        ELSE cleaned

\* the except clause: report on stderr, sys.exit(1)
ExtractFails ==
    /\ pc' = "exited"
    /\ stderr' = Append(stderr, [prefix |-> "Error extracting text from PDF: "])
    /\ exit_code' = Some(1)
    /\ UNCHANGED stdout

\* all texts over Chars of length at most n
RECURSIVE TextsUpTo(_)
TextsUpTo(n) ==
    IF n = 0 THEN {<<>>}
    ELSE LET shorter == TextsUpTo(n - 1)
         IN  shorter \cup {Append(t, c) : t \in shorter, c \in Chars}

\* all documents of exactly p pages holding at most n characters
RECURSIVE DocsOf(_, _)
DocsOf(p, n) ==
    IF p = 0 THEN {<<>>}
    ELSE UNION {{<<t>> \o d : d \in DocsOf(p - 1, n - Len(t))} : t \in TextsUpTo(n)}

Documents == UNION {DocsOf(p, MaxDocChars) : p \in 0..MaxDocPages}

Limits == {None} \cup {Some(n) : n \in 0..MaxLimit}

IdleExtract ==
    /\ pdf_pages = <<>>
    /\ max_pages = None
    /\ doc_opened = FALSE
    /\ doc_closed = FALSE
    /\ total_pages = 0
    /\ pages_to_process = 0
    /\ page_num = 0
    /\ loaded = <<>>
    /\ text_content = <<>>
    /\ processed_text = <<>>

IdleDeck ==
    /\ flashcards_json = [kind |-> "malformed", items |-> <<>>]
    /\ flashcards = None
    /\ deck = <<>>
    /\ card_idx = 0
    /\ write_calls = <<>>

InitExtract ==
    /\ pc = "start"
    /\ exit_code = None
    /\ stderr = <<>>
    /\ stdout = <<>>
    /\ pdf_pages \in Documents
    /\ max_pages \in Limits
    /\ doc_opened = FALSE
    /\ doc_closed = FALSE
    /\ total_pages = 0
    /\ pages_to_process = 0
    /\ page_num = 0
    /\ loaded = <<>>
    /\ text_content = <<>>
    /\ processed_text = <<>>
    /\ IdleDeck

\* lines 9-14: fitz.open succeeds
OpenDoc ==
    /\ pc = "start"
    /\ doc_opened' = TRUE
    /\ text_content' = <<>>
    /\ total_pages' = Len(pdf_pages)
    /\ pages_to_process' = PagesToProcess(Len(pdf_pages), max_pages)
    /\ page_num' = 0
    /\ pc' = "loop"
    /\ UNCHANGED <<exit_code, stderr, stdout, pdf_pages, max_pages, doc_closed,
                   loaded, processed_text>>
    /\ UNCHANGED ankiVars

\* line 9: fitz.open raises (missing or unreadable file)
OpenDocFails ==
    /\ pc = "start"
    /\ ExtractFails
    /\ UNCHANGED pdfVars
    /\ UNCHANGED ankiVars

\* lines 16-20: one iteration of the page loop
LoadPage ==
    /\ pc = "loop"
    /\ page_num < pages_to_process
    /\ LET text == pdf_pages[page_num + 1]
       IN  text_content' = IF Strip(text) # <<>> THEN Append(text_content, text)
                           ELSE text_content
    /\ loaded' = Append(loaded, page_num)
    /\ page_num' = page_num + 1
    /\ UNCHANGED <<pc, exit_code, stderr, stdout, pdf_pages, max_pages, doc_opened,
                   doc_closed, total_pages, pages_to_process, processed_text>>
    /\ UNCHANGED ankiVars

\* lines 17-18: load_page or get_text raises on the current page
LoadPageFails ==
    /\ pc = "loop"
    /\ page_num < pages_to_process
    /\ loaded' = Append(loaded, page_num)
    /\ ExtractFails
    /\ UNCHANGED <<pdf_pages, max_pages, doc_opened, doc_closed, total_pages,
                   pages_to_process, page_num, text_content, processed_text>>
    /\ UNCHANGED ankiVars

\* line 22: the loop is over, doc.close()
CloseDoc ==
    /\ pc = "loop"
    /\ page_num >= pages_to_process
    /\ doc_closed' = TRUE
    /\ pc' = "clean"
    /\ UNCHANGED <<exit_code, stderr, stdout, pdf_pages, max_pages, doc_opened,
                   total_pages, pages_to_process, page_num, loaded, text_content,
                   processed_text>>
    /\ UNCHANGED ankiVars

\* lines 24-43: clean the text and return it
ReturnText ==
    /\ pc = "clean"
    /\ processed_text' = ProcessText(text_content, max_pages, pages_to_process,
                                     total_pages)
    /\ pc' = "returned"
    /\ UNCHANGED <<exit_code, stderr, stdout, pdf_pages, max_pages, doc_opened,
                   doc_closed, total_pages, pages_to_process, page_num, loaded,
                   text_content>>
    /\ UNCHANGED ankiVars

NextExtract ==
    \/ OpenDoc
    \/ OpenDocFails
    \/ LoadPage
    \/ LoadPageFails
    \/ CloseDoc
    \/ ReturnText

SpecExtract == InitExtract /\ [][NextExtract]_vars

----------------------------------------------------------------------------
(* create_anki_deck *)

\* the value a record holds for its only possible field content
FieldValues == {"x"}

Keys == {"question", "answer", "topic", "difficulty"}

\* a JSON object used as a flashcard record: each key is absent or has a value
Mappings == [Keys -> {None} \cup {Some(v) : v \in FieldValues}]

NoMapping == [k \in Keys |-> None]

\* the elements a for loop over a JSON value can yield
ObjectElems == {[kind |-> "object", rec |-> m] : m \in Mappings}

NumberElem == [kind |-> "number", rec |-> NoMapping]

StringElem == [kind |-> "string", rec |-> NoMapping]

Elems == ObjectElems \cup {NumberElem}

RECURSIVE SeqsUpTo(_, _)
SeqsUpTo(S, n) ==
    IF n = 0 THEN {<<>>}
    ELSE LET shorter == SeqsUpTo(S, n - 1)
         IN  shorter \cup {Append(s, e) : s \in shorter, e \in S}

\* the documents json.loads accepts, as the values they decode to: arrays of
\* records and numbers; a number, null; an object (iterates over its keys, which
\* are strings); a string (iterates over its characters, which are strings)
JsonValues ==
    {[kind |-> "array", items |-> s] : s \in SeqsUpTo(Elems, MaxCards)}
    \cup {[kind |-> "number", items |-> <<>>], [kind |-> "null", items |-> <<>>]}
    \cup {[kind |-> "object", items |-> s] : s \in SeqsUpTo({StringElem}, 1)}
    \cup {[kind |-> "string", items |-> s] : s \in SeqsUpTo({StringElem}, 1)}

Malformed == [kind |-> "malformed", items |-> <<>>]

JsonInputs == JsonValues \cup {Malformed}

\* iter(v) and len(v) are defined for these
Iterable(v) == v.kind \in {"array", "object", "string"}

\* only a dict has .get
HasGet(e) == e.kind = "object"

\* variant: the default dropped, an absent key reads as None
DictGetNoDefault(rec, key, default) == IF rec[key] = None THEN "None" ELSE rec[key][1]

\* dict.get(key, default)
DictGet(rec, key, default) == IF rec[key] = None THEN default ELSE rec[key][1]

\* lines 118-123: the fields list of the note built from one record
NoteFields(card) ==
    <<DictGet(card.rec, "question", ""),
      DictGet(card.rec, "answer", ""),
      DictGet(card.rec, "topic", ""),
      DictGet(card.rec, "difficulty", "")>>

SuccessLine(n) ==
    <<"S", "u", "c", "c", "e", "s", "s", "f", "u", "l", "l", "y", " ", "c", "r",
      "e", "a", "t", "e", "d", " ", "A", "n", "k", "i", " ", "d", "e", "c", "k",
      " ", "w", "i", "t", "h", " ">>
    \o Digits(n)
    \o <<" ", "c", "a", "r", "d", "s">>

\* variant: the error reported without a failing exit status
DeckFailsExitZero ==
    /\ pc' = "exited"
    /\ stderr' = Append(stderr, [prefix |-> "Error creating Anki deck: "])
    /\ exit_code' = Some(0)
    /\ UNCHANGED stdout

\* the except clause: report on stderr, sys.exit(1)
DeckFails ==
    /\ pc' = "exited"
    /\ stderr' = Append(stderr, [prefix |-> "Error creating Anki deck: "])
    /\ exit_code' = Some(1)
    /\ UNCHANGED stdout

InitDeck ==
    /\ pc = "start"
    /\ exit_code = None
    /\ stderr = <<>>
    /\ stdout = <<>>
    /\ flashcards_json \in JsonInputs
    /\ flashcards = None
    /\ deck = <<>>
    /\ card_idx = 0
    /\ write_calls = <<>>
    /\ IdleExtract

\* lines 11-112: json.loads succeeds, the empty deck and the model are built
ParseJson ==
    /\ pc = "start"
    /\ flashcards_json # Malformed
    /\ flashcards' = Some(flashcards_json)
    /\ deck' = <<>>
    /\ pc' = "iter"
    /\ UNCHANGED <<exit_code, stderr, stdout, flashcards_json, card_idx, write_calls>>
    /\ UNCHANGED pdfVars

\* variant: malformed input read as an empty array
ParseJsonFailsSwallow ==
    /\ pc = "start"
    /\ flashcards_json = Malformed
    /\ flashcards' = Some([kind |-> "array", items |-> <<>>])
    /\ deck' = <<>>
    /\ pc' = "iter"
    /\ UNCHANGED <<exit_code, stderr, stdout, flashcards_json, card_idx, write_calls>>
    /\ UNCHANGED pdfVars

\* line 11: json.loads raises on malformed input
ParseJsonFails ==
    /\ pc = "start"
    /\ flashcards_json = Malformed
    /\ DeckFails
    /\ UNCHANGED ankiVars
    /\ UNCHANGED pdfVars

\* line 115: the for statement takes an iterator of flashcards
StartLoop ==
    /\ pc = "iter"
    /\ Iterable(flashcards[1])
    /\ card_idx' = 0
    /\ pc' = "loop"
    /\ UNCHANGED <<exit_code, stderr, stdout, flashcards_json, flashcards, deck,
                   write_calls>>
    /\ UNCHANGED pdfVars

\* line 115: flashcards is not iterable (a number, null)
StartLoopFails ==
    /\ pc = "iter"
    /\ ~Iterable(flashcards[1])
    /\ DeckFails
    /\ UNCHANGED ankiVars
    /\ UNCHANGED pdfVars

\* variant: the note put in front of the deck
AddNotePrepend ==
    /\ pc = "loop"
    /\ card_idx < Len(flashcards[1].items)
    /\ LET card == flashcards[1].items[card_idx + 1]
       IN  /\ HasGet(card)
           /\ deck' = <<NoteFields(card)>> \o deck
    /\ card_idx' = card_idx + 1
    /\ UNCHANGED <<pc, exit_code, stderr, stdout, flashcards_json, flashcards,
                   write_calls>>
    /\ UNCHANGED pdfVars

\* variant: the package written inside the loop
AddNoteWriting ==
    /\ pc = "loop"
    /\ card_idx < Len(flashcards[1].items)
    /\ LET card == flashcards[1].items[card_idx + 1]
       IN  /\ HasGet(card)
           /\ deck' = Append(deck, NoteFields(card))
           /\ write_calls' = Append(write_calls, Append(deck, NoteFields(card)))
    /\ card_idx' = card_idx + 1
    /\ UNCHANGED <<pc, exit_code, stderr, stdout, flashcards_json, flashcards>>
    /\ UNCHANGED pdfVars

\* lines 115-125: one iteration, the note of the next card is added to the deck
AddNote ==
    /\ pc = "loop"
    /\ card_idx < Len(flashcards[1].items)
    /\ LET card == flashcards[1].items[card_idx + 1]
       IN  /\ HasGet(card)
           /\ deck' = Append(deck, NoteFields(card))
    /\ card_idx' = card_idx + 1
    /\ UNCHANGED <<pc, exit_code, stderr, stdout, flashcards_json, flashcards,
                   write_calls>>
    /\ UNCHANGED pdfVars

\* line 119: the next card has no .get (it is not a mapping)
AddNoteFails ==
    /\ pc = "loop"
    /\ card_idx < Len(flashcards[1].items)
    /\ ~HasGet(flashcards[1].items[card_idx + 1])
    /\ DeckFails
    /\ UNCHANGED ankiVars
    /\ UNCHANGED pdfVars

\* lines 128-129: the loop is over, the package is written
WriteToFile ==
    /\ pc = "loop"
    /\ card_idx >= Len(flashcards[1].items)
    /\ write_calls' = Append(write_calls, deck)
    /\ pc' = "written"
    /\ UNCHANGED <<exit_code, stderr, stdout, flashcards_json, flashcards, deck,
                   card_idx>>
    /\ UNCHANGED pdfVars

\* line 129: write_to_file raises (unwritable path, a field genanki rejects)
WriteToFileFails ==
    /\ pc = "loop"
    /\ card_idx >= Len(flashcards[1].items)
    /\ write_calls' = Append(write_calls, deck)
    /\ DeckFails
    /\ UNCHANGED <<flashcards_json, flashcards, deck, card_idx>>
    /\ UNCHANGED pdfVars

\* line 131 and the end of the script: the success line, exit status 0
PrintSuccess ==
    /\ pc = "written"
    /\ stdout' = Append(stdout, SuccessLine(Len(flashcards[1].items)))
    /\ exit_code' = Some(0)
    /\ pc' = "done"
    /\ UNCHANGED stderr
    /\ UNCHANGED ankiVars
    /\ UNCHANGED pdfVars

NextDeck ==
    \/ ParseJson
    \/ ParseJsonFails
    \/ StartLoop
    \/ StartLoopFails
    \/ AddNote
    \/ AddNoteFails
    \/ WriteToFile
    \/ WriteToFileFails
    \/ PrintSuccess

SpecDeck == InitDeck /\ [][NextDeck]_vars

----------------------------------------------------------------------------
(* Properties of extract_text_from_pdf, checked under SpecExtract *)

\* the lines of a text; the empty text has none
OutputLines(text) == IF text = <<>> THEN <<>> ELSE Split(text, NL)

IsBlank(text) == \A i \in 1..Len(text) : text[i] \in Whitespace

HasWhitespaceRun(text) ==
    \E i \in 1..(Len(text) - 1) : text[i] \in Whitespace /\ text[i + 1] \in Whitespace

LineOk(line) == line # <<>> /\ ~HasWhitespaceRun(line)

EndsWith(text, suffix) ==
    /\ Len(suffix) <= Len(text)
    /\ SubSeq(text, Len(text) - Len(suffix) + 1, Len(text)) = suffix

\* "[Note: Only the first P of T pages were processed due to plan limits]"
NoteLine(p, t) ==
    <<"[", "N", "o", "t", "e", ":", " ", "O", "n", "l", "y", " ", "t", "h", "e",
      " ", "f", "i", "r", "s", "t", " ">> \o Digits(p) \o <<" ", "o", "f", " ">>
    \o Digits(t)
    \o <<" ", "p", "a", "g", "e", "s", " ", "w", "e", "r", "e", " ", "p", "r", "o",
         "c", "e", "s", "s", "e", "d", " ", "d", "u", "e", " ", "t", "o", " ", "p",
         "l", "a", "n", " ", "l", "i", "m", "i", "t", "s", "]">>

Counts == 0..(MaxDocPages + MaxLimit + 1)

HasNotice(text) == \E p \in Counts, t \in Counts : EndsWith(text, NoteLine(p, t))

\* the text in front of the notice and of the two newlines that introduce it
BodyOf(text) ==
    IF \E p \in Counts, t \in Counts : EndsWith(text, <<NL, NL>> \o NoteLine(p, t))
    THEN LET n == CHOOSE k \in 0..Len(text) :
                      \E p \in Counts, t \in Counts :
                          SubSeq(text, k + 1, Len(text)) = <<NL, NL>> \o NoteLine(p, t)
         IN  SubSeq(text, 1, n)
    ELSE text

AllLinesOk(text) ==
    \A i \in 1..Len(OutputLines(text)) : LineOk(OutputLines(text)[i])

\* the page indexes 0 .. n-1
RECURSIVE Indexes(_)
Indexes(n) == IF n <= 0 THEN <<>> ELSE Append(Indexes(n - 1), n - 1)

\* a limit is in force when max_pages is neither None nor 0 (line 14 tests its truth)
LimitGiven == max_pages # None /\ max_pages[1] # 0

ExpectedCount ==
    IF LimitGiven THEN Min(Len(pdf_pages), max_pages[1]) ELSE Len(pdf_pages)

NonBlank(text) == ~IsBlank(text)

\* C1 as stated: every line of the returned text, the notice included, is
\* non-empty and has no two consecutive whitespace characters.
C1_EveryLineClean == pc = "returned" => AllLinesOk(processed_text)

\* C1 amended: every line of the returned text in front of the truncation
\* notice and of the blank separator that introduces it is non-empty and has no
\* two consecutive whitespace characters; the notice line itself has none either.
C1_BodyLinesClean ==
    pc = "returned" =>
        /\ AllLinesOk(BodyOf(processed_text))
        /\ HasNotice(processed_text) =>
               /\ BodyOf(processed_text) # processed_text
               /\ LineOk(OutputLines(processed_text)[Len(OutputLines(processed_text))])

C1_Witness ==
    /\ pc = "returned"
    /\ HasNotice(processed_text)
    /\ BodyOf(processed_text) # <<>>
    /\ \E i \in 1..Len(text_content) : HasWhitespaceRun(Strip(text_content[i]))

\* C2: once fitz.open has succeeded, the handle is closed by the time the
\* function returns or the process exits.
C2_ClosedOnEveryExit ==
    (pc \in {"returned", "exited"} /\ doc_opened) => doc_closed

\* C3 as stated: the returned text ends with the notice naming the processed
\* and the total count exactly when max_pages < total_pages; no notice when
\* max_pages >= total_pages or max_pages is absent.
C3_NoticeIffBelowTotal ==
    pc = "returned" =>
        IF max_pages # None /\ max_pages[1] < Len(pdf_pages)
        THEN EndsWith(processed_text, NoteLine(Len(loaded), Len(pdf_pages)))
        ELSE ~HasNotice(processed_text)

\* C3 amended: the returned text ends with the notice naming the processed and
\* the total count when max_pages is a positive integer below total_pages; no
\* notice when max_pages >= total_pages, is absent, or is 0.
C3_NoticeIffPositiveBelowTotal ==
    pc = "returned" =>
        IF max_pages # None /\ max_pages[1] > 0 /\ max_pages[1] < Len(pdf_pages)
        THEN /\ EndsWith(processed_text, NoteLine(max_pages[1], Len(pdf_pages)))
             /\ Len(loaded) = max_pages[1]
        ELSE ~HasNotice(processed_text)

C3_Witness ==
    /\ pc = "returned"
    /\ max_pages = Some(1)
    /\ Len(pdf_pages) = 2
    /\ EndsWith(processed_text, NoteLine(1, 2))

\* C7: the pages loaded are those of index 0 .. n-1 in ascending order, n being
\* min(total_pages, max_pages) under a limit and total_pages otherwise, and
\* text_content holds exactly the non-blank ones of them, in page order: no
\* blank page and no page at or beyond the limit contributes.
C7_PagesInRange ==
    /\ pc # "start" =>
           \E k \in 0..ExpectedCount : loaded = Indexes(k)
    /\ pc \in {"clean", "returned"} =>
           /\ loaded = Indexes(ExpectedCount)
           /\ text_content = SelectSeq(SubSeq(pdf_pages, 1, ExpectedCount), NonBlank)
    /\ pc = "returned" =>
           BodyOf(processed_text) =
               Join(<<NL>>, CleanLines(Split(Join(<<NL, NL>>,
                   SelectSeq(SubSeq(pdf_pages, 1, ExpectedCount), NonBlank)), NL)))

C7_Witness ==
    /\ pc = "returned"
    /\ max_pages = Some(1)
    /\ Len(pdf_pages) = 2
    /\ NonBlank(pdf_pages[2])
    /\ loaded = <<0>>

\* C10: with max_pages = 0 every page is processed and no notice is appended,
\* as with no limit at all.
C10_ZeroIsNoLimit ==
    (max_pages = Some(0) /\ pc \in {"clean", "returned"}) =>
        /\ pages_to_process = Len(pdf_pages)
        /\ loaded = Indexes(Len(pdf_pages))
        /\ pc = "returned" =>
               /\ ~HasNotice(processed_text)
               /\ processed_text =
                      Join(<<NL>>, CleanLines(Split(Join(<<NL, NL>>,
                          SelectSeq(pdf_pages, NonBlank)), NL)))

C10_Witness ==
    /\ pc = "returned"
    /\ max_pages = Some(0)
    /\ Len(pdf_pages) = 2
    /\ processed_text # <<>>

----------------------------------------------------------------------------
(* Properties of create_anki_deck, checked under SpecDeck *)

\* "Successfully created Anki deck with N cards"
SuccessText(n) ==
    <<"S", "u", "c", "c", "e", "s", "s", "f", "u", "l", "l", "y", " ", "c", "r",
      "e", "a", "t", "e", "d", " ", "A", "n", "k", "i", " ", "d", "e", "c", "k",
      " ", "w", "i", "t", "h", " ">> \o Digits(n) \o <<" ", "c", "a", "r", "d", "s">>

ErrorLine == [prefix |-> "Error creating Anki deck: "]

\* a valid flashcard array: a JSON array all of whose elements are mappings
ValidArray(v) ==
    /\ v.kind = "array"
    /\ \A i \in 1..Len(v.items) : v.items[i].kind = "object"

\* the value of a field of a record, "" for a missing one
FieldOr(card, key) == IF card.rec[key] = None THEN "" ELSE card.rec[key][1]

\* C4: for a valid flashcard array the deck handed to write_to_file has one
\* note per record, the i-th from the i-th record, and the success line
\* reports that count.
C4_DeckMatchesArray ==
    (ValidArray(flashcards_json) /\ pc \in {"written", "done"}) =>
        /\ Len(write_calls) = 1
        /\ Len(write_calls[1]) = Len(flashcards_json.items)
        /\ \A i \in 1..Len(flashcards_json.items) :
               write_calls[1][i] = NoteFields(flashcards_json.items[i])
        /\ pc = "done" => stdout = <<SuccessText(Len(flashcards_json.items))>>

C4_Witness ==
    /\ pc = "done"
    /\ ValidArray(flashcards_json)
    /\ Len(flashcards_json.items) = 2
    /\ flashcards_json.items[1] # flashcards_json.items[2]
    /\ stdout = <<SuccessText(2)>>

\* C5: on malformed JSON the run exits with status 1 and write_to_file is
\* never invoked.
C5_MalformedExitsWithoutWrite ==
    flashcards_json = Malformed =>
        /\ write_calls = <<>>
        /\ pc \in {"start", "exited"}
        /\ pc = "exited" => exit_code = Some(1)

C5_Witness ==
    /\ flashcards_json = Malformed
    /\ pc = "exited"
    /\ exit_code = Some(1)

\* C6: the note of a record holds, in the order Question, Answer, Topic,
\* Difficulty, the record's value of each field that is present and "" for each
\* field that is missing; converting a mapping never fails.
C6_MissingFieldsDefault ==
    /\ flashcards # None =>
           \A i \in 1..Len(deck) :
               LET card == flashcards[1].items[i]
               IN  deck[i] = <<FieldOr(card, "question"), FieldOr(card, "answer"),
                               FieldOr(card, "topic"), FieldOr(card, "difficulty")>>
    /\ (pc = "exited" /\ flashcards # None /\ Iterable(flashcards[1])
            /\ write_calls = <<>>) =>
           /\ card_idx < Len(flashcards[1].items)
           /\ flashcards[1].items[card_idx + 1].kind # "object"
    /\ (pc = "loop" /\ card_idx < Len(flashcards[1].items)
            /\ flashcards[1].items[card_idx + 1].kind = "object") =>
           ENABLED AddNote /\ ~ENABLED AddNoteFails

C6_Witness ==
    /\ pc = "done"
    /\ \E i \in 1..Len(deck) : deck[i] = <<"x", "", "", "x">>
    /\ \E i \in 1..Len(deck) : deck[i] = <<"", "", "", "">>

\* C8: a run that fails ends with exit status 1 and the error line on stderr
\* and no success line; the success line comes with exit status 0, after a
\* write that did not fail; a run ends in one of the two ways, never both.
C8_ExitOneOnAnyError ==
    /\ pc = "exited" =>
           /\ exit_code = Some(1)
           /\ stderr = <<ErrorLine>>
           /\ stdout = <<>>
    /\ pc = "done" =>
           /\ exit_code = Some(0)
           /\ stderr = <<>>
           /\ Len(stdout) = 1
           /\ Len(write_calls) = 1
           /\ flashcards_json # Malformed
           /\ \A i \in 1..Len(flashcards_json.items) : HasGet(flashcards_json.items[i])
    /\ pc \notin {"exited", "done"} =>
           /\ exit_code = None
           /\ stderr = <<>>
           /\ stdout = <<>>
    /\ ~(ENABLED NextDeck) => pc \in {"exited", "done"}

C8_Witness ==
    /\ pc = "exited"
    /\ Len(write_calls) = 1
    /\ stderr = <<ErrorLine>>
    /\ exit_code = Some(1)

\* C9: write_to_file is invoked at most once, after every element has been
\* converted and added; when an element cannot be converted no write is made.
C9_WriteOnceAfterAllNotes ==
    /\ Len(write_calls) <= 1
    /\ write_calls # <<>> =>
           /\ card_idx = Len(flashcards[1].items)
           /\ Len(write_calls[1]) = Len(flashcards[1].items)
           /\ write_calls[1] = deck
    /\ (flashcards # None
            /\ \E i \in 1..Len(flashcards[1].items) :
                   flashcards[1].items[i].kind # "object") =>
           write_calls = <<>>

C9_Witness ==
    /\ pc = "exited"
    /\ Len(deck) = 1
    /\ Len(flashcards[1].items) = 2
    /\ write_calls = <<>>

====
